---------------------------- MODULE Spec2Model ----------------------------
(***************************************************************************)
(* Employee directory (yuch4/hr-system): the data access layer             *)
(* (lib/database), the CSV import validation (utils/csvImport), the CSV    *)
(* export (utils/csvExport), the CSV import modal (CSVImportModal) and the *)
(* registration form (pages/EmployeeRegistration).                         *)
(*                                                                         *)
(* Strings are sequences of characters.  A character is a TLA+ string: an  *)
(* ASCII character is the one-character string of itself, and a character *)
(* outside ASCII is named by a longer string (its reading): "kai" is the   *)
(* kanji of KAISHA, "K_me" the katakana ME, "h_no" the hiragana NO.  No    *)
(* two characters share a name.                                            *)
(***************************************************************************)
EXTENDS Integers, Sequences, FiniteSets, TLC

\* ------------------------------------------------------------------------
\* Characters and string helpers (JavaScript String semantics)
\* ------------------------------------------------------------------------

COMMA == ","
DQ    == "\""
LF    == "\n"
SP    == " "
BOM   == "FEFF"

\* String.prototype.trim removes these (ECMAScript WhiteSpace and
\* LineTerminator); FEFF and the ideographic space are among them.
WhiteSpace == {SP, LF, "\t", "\r", BOM, "IDEOGRAPHIC_SPACE"}

Letters ==
    {"a","b","c","d","e","f","g","h","i","j","k","l","m",
     "n","o","p","q","r","s","t","u","v","w","x","y","z",
     "A","B","C","D","E","F","G","H","I","J","K","L","M",
     "N","O","P","Q","R","S","T","U","V","W","X","Y","Z"}

Digits == {"0","1","2","3","4","5","6","7","8","9"}

Min(a, b) == IF a <= b THEN a ELSE b

\* s.substring(from - 1, to) with 1-based inclusive bounds
Sub(s, from, to) == IF from > to THEN << >> ELSE SubSeq(s, from, to)

\* s.indexOf(c, from - 1) + 1: the first position >= from holding c, 0 if none
IndexOf(s, c, from) ==
    LET hits == {i \in 1..Len(s) : i >= from /\ s[i] = c}
    IN  IF hits = {} THEN 0 ELSE CHOOSE i \in hits : \A j \in hits : i <= j

\* s.includes(needle)
Includes(s, needle) ==
    \E i \in 0..(Len(s) - Len(needle)) :
        \A j \in 1..Len(needle) : s[i + j] = needle[j]

\* s.trim()
Trim(s) ==
    LET keep == {i \in 1..Len(s) : s[i] \notin WhiteSpace}
    IN  IF keep = {} THEN << >>
        ELSE LET lo == CHOOSE i \in keep : \A j \in keep : i <= j
                 hi == CHOOSE i \in keep : \A j \in keep : i >= j
             IN  SubSeq(s, lo, hi)

RECURSIVE Join(_, _)
\* parts.join(sep)
Join(parts, sep) ==
    IF parts = << >> THEN << >>
    ELSE IF Len(parts) = 1 THEN parts[1]
    ELSE parts[1] \o sep \o Join(Tail(parts), sep)

\* ------------------------------------------------------------------------
\* Column names and messages
\* ------------------------------------------------------------------------

H_company    == <<"kai", "sha", "mei">>
H_name       == <<"shi", "mei">>
H_email      == <<"K_me", "K_chouon", "K_ru", "K_a", "K_do", "K_re", "K_su">>
H_department == <<"bu", "sho">>
H_position   == <<"yaku", "shoku">>

\* REQUIRED_HEADERS: the pairs (header, field) in the object's key order
REQUIRED_HEADERS ==
    << <<H_company, "company_name">>, <<H_name, "name">>, <<H_email, "email">>,
       <<H_department, "department">>, <<H_position, "position">> >>

Fields == {"company_name", "name", "email", "department", "position"}

\* /^[A-Z0-9._%+-]+@[A-Z0-9.-]+\.[A-Z]{2,}$/i .test(s)
EmailPattern(s) ==
    LET local  == Letters \cup Digits \cup {".", "_", "%", "+", "-"}
        domain == Letters \cup Digits \cup {".", "-"}
    IN  \E at \in 1..Len(s) : \E dot \in 1..Len(s) :
            /\ 1 < at /\ at + 1 < dot /\ dot + 2 <= Len(s)
            /\ s[at] = "@" /\ s[dot] = "."
            /\ \A i \in 1..(at - 1) : s[i] \in local
            /\ \A i \in (at + 1)..(dot - 1) : s[i] \in domain
            /\ \A i \in (dot + 1)..Len(s) : s[i] \in Letters

\* ------------------------------------------------------------------------
\* CSV export (utils/csvExport)
\* ------------------------------------------------------------------------

\* Object.values(headers): the export's columns in the object's key order
ExportHeaders == <<H_name, H_email, H_company, H_department, H_position>>

\* `"${value}"`: the value between two quote characters, nothing escaped
Quoted(value) == <<DQ>> \o value \o <<DQ>>

\* A data row in the import template's column order
ExportRowTemplateOrder(row) ==
    Join(<<Quoted(row.company_name), Quoted(row.name), Quoted(row.email),
           Quoted(row.department), Quoted(row.position)>>, <<COMMA>>)

\* One data row of the export
ExportRow(row) ==
    Join(<<Quoted(row.name), Quoted(row.email), Quoted(row.company_name),
           Quoted(row.department), Quoted(row.position)>>, <<COMMA>>)

\* csvContent: the header row and the data rows joined by line feeds
CsvContent(data) ==
    Join(<<Join(ExportHeaders, <<COMMA>>)>> \o [i \in 1..Len(data) |-> ExportRow(data[i])],
         <<LF>>)

\* downloadCSV: the text of the Blob handed to the browser for download
downloadCSV(data) == <<BOM>> \o CsvContent(data)

\* ------------------------------------------------------------------------
\* CSV parsing: Papa.parse(file, {header: true, encoding: 'UTF-8'})
\*
\* The delimiter is the comma and the line break the line feed: what Papa's
\* guesses give for every text without tab, semicolon, pipe and carriage
\* return, the texts modelled here.
\* ------------------------------------------------------------------------

\* FileReader.readAsText(file, 'UTF-8'): decoding drops a leading byte-order mark
readAsText(content) ==
    IF content # << >> /\ content[1] = BOM THEN Tail(content) ELSE content

RECURSIVE Unescape(_)
\* value.replace(/""/g, '"')
Unescape(s) ==
    IF Len(s) < 2 THEN s
    ELSE IF s[1] = DQ /\ s[2] = DQ THEN <<DQ>> \o Unescape(SubSeq(s, 3, Len(s)))
    ELSE <<s[1]>> \o Unescape(Tail(s))

\* extraSpaces(index): the length of the text between the quote at q and
\* position index when that text is non-empty and all white space, else 0
ExtraSpaces(input, q, index) ==
    LET between == Sub(input, q + 1, index - 1)
    IN  IF index # 0 /\ between # << >> /\ Trim(between) = << >>
        THEN Len(between) ELSE 0

RECURSIVE ParseFrom(_, _, _, _)
RECURSIVE ParseQuoted(_, _, _, _, _)

\* Parser.parse, the parser loop from position cursor with the fields of the
\* current row in row and the finished rows in data
ParseFrom(input, cursor, row, data) ==
    IF cursor <= Len(input) /\ input[cursor] = DQ
    THEN ParseQuoted(input, cursor + 1, cursor + 1, row, data)
    ELSE LET nextDelim   == IndexOf(input, COMMA, cursor)
             nextNewline == IndexOf(input, LF, cursor)
         IN  IF nextDelim # 0 /\ (nextDelim < nextNewline \/ nextNewline = 0)
             THEN ParseFrom(input, nextDelim + 1,
                            Append(row, Sub(input, cursor, nextDelim - 1)), data)
             ELSE IF nextNewline # 0
             THEN ParseFrom(input, nextNewline + 1, << >>,
                            Append(data, Append(row, Sub(input, cursor, nextNewline - 1))))
             ELSE Append(data, Append(row, Sub(input, cursor, Len(input))))

\* The quoted-field loop: the field's text starts at start, the search for
\* the closing quote at from
ParseQuoted(input, start, from, row, data) ==
    LET q == IndexOf(input, DQ, from)
    IN  IF q = 0
        THEN \* no closing quote: the rest of the input is the field
             Append(data, Append(row, Sub(input, start, Len(input))))
        ELSE IF q = Len(input)
        THEN Append(data, Append(row, Unescape(Sub(input, start, q - 1))))
        ELSE IF input[q + 1] = DQ
        THEN ParseQuoted(input, start, q + 2, row, data)
        ELSE LET nextDelim   == IndexOf(input, COMMA, q + 1)
                 nextNewline == IndexOf(input, LF, q + 1)
                 checkUpTo   == IF nextNewline = 0 THEN nextDelim
                                ELSE IF nextDelim = 0 THEN 0
                                ELSE Min(nextDelim, nextNewline)
                 spDelim     == ExtraSpaces(input, q, checkUpTo)
                 spNewline   == ExtraSpaces(input, q, nextNewline)
                 value       == Unescape(Sub(input, start, q - 1))
             IN  IF q + 1 + spDelim <= Len(input) /\ input[q + 1 + spDelim] = COMMA
                 THEN ParseFrom(input, q + 1 + spDelim + 1, Append(row, value), data)
                 ELSE IF q + 1 + spNewline <= Len(input) /\ input[q + 1 + spNewline] = LF
                 THEN ParseFrom(input, q + 1 + spNewline + 1, << >>,
                                Append(data, Append(row, value)))
                 ELSE \* a quote inside the text: it stays part of the field
                      ParseQuoted(input, start, q + 2, row, data)

\* The rows of the text, each a sequence of fields
PapaRows(input) == IF input = << >> THEN << >> ELSE ParseFrom(input, 1, << >>, << >>)

\* header: true turns a row into an object keyed by the header row's fields;
\* a field the row is too short for is absent, fields beyond the header are
\* not keyed by a column name
RowObject(fields, row) ==
    LET n == Min(Len(fields), Len(row))
    IN  [h \in {fields[j] : j \in 1..n} |->
            row[CHOOSE j \in 1..n : fields[j] = h /\ \A k \in 1..n : fields[k] = h => k <= j]]

\* results of Papa.parse: meta.fields and data
PapaParse(content) ==
    LET rows == PapaRows(readAsText(content))
    IN  IF rows = << >> THEN [fields |-> << >>, data |-> << >>]
        ELSE [fields |-> rows[1],
              data   |-> [i \in 1..(Len(rows) - 1) |-> RowObject(rows[1], rows[i + 1])]]

\* ------------------------------------------------------------------------
\* CSV import validation (utils/csvImport)
\* ------------------------------------------------------------------------

\* The messages shown by the import, by their parts: the kind, the row number
\* (0: none) and the subject (the column, or the employee's name)
ErrMissingHeaders(missing) ==
    [type |-> "missingHeaders", row |-> 0, subject |-> Join(missing, <<COMMA, SP>>)]
ErrRequired(rowNum, header) == [type |-> "required", row |-> rowNum, subject |-> header]
ErrEmailFormat(rowNum) == [type |-> "emailFormat", row |-> rowNum, subject |-> H_email]
ErrParse == [type |-> "parseFailed", row |-> 0, subject |-> << >>]

\* !row[header]?.trim(): the column is absent, empty or white space only
IsBlank(row, header) == header \notin DOMAIN row \/ Trim(row[header]) = << >>

\* The required-field messages of one row, in REQUIRED_HEADERS order
RequiredErrors(row, rowNum) ==
    LET Missing(pair) == IsBlank(row, pair[1])
        missing == SelectSeq(REQUIRED_HEADERS, Missing)
    IN  [i \in 1..Len(missing) |-> ErrRequired(rowNum, missing[i][1])]

\* The email-format message of one row: email && !pattern.test(email)
EmailErrors(row, rowNum) ==
    IF H_email \in DOMAIN row /\ row[H_email] # << >> /\ ~EmailPattern(row[H_email])
    THEN <<ErrEmailFormat(rowNum)>> ELSE << >>

\* rowErrors of the filter callback
RowErrors(row, rowNum) == RequiredErrors(row, rowNum) \o EmailErrors(row, rowNum)

\* results.data.indexOf(row) + 2 for the row at 1-based position i
RowNum(i) == (i - 1) + 2

\* The object the map callback builds from a row that passed the filter
ToRecord(row) ==
    [company_name |-> row[H_company], name |-> row[H_name], email |-> row[H_email],
     department |-> row[H_department], position |-> row[H_position]]

RECURSIVE AllRowErrors(_, _)
\* The row messages of the rows from position i on, in row order
AllRowErrors(data, i) ==
    IF i > Len(data) THEN << >>
    ELSE RowErrors(data[i], RowNum(i)) \o AllRowErrors(data, i + 1)

RECURSIVE ValidRows(_, _)
\* The rows from position i on that pass the filter, mapped to records
ValidRows(data, i) ==
    IF i > Len(data) THEN << >>
    ELSE (IF RowErrors(data[i], RowNum(i)) = << >> THEN <<ToRecord(data[i])>> ELSE << >>)
         \o ValidRows(data, i + 1)

\* valid: errors.length === 0 && validData.length > 0
IsValid(errors, validData) == errors = << >> /\ validData # << >>

\* validateCSVData, the complete callback: the ValidationResult of a file's content
validateCSVData(content) ==
    LET results == PapaParse(content)
        headers == {results.fields[j] : j \in 1..Len(results.fields)}
        IsMissing(pair) == pair[1] \notin headers
        missing == SelectSeq(REQUIRED_HEADERS, IsMissing)
        errors  == (IF missing # << >>
                    THEN <<ErrMissingHeaders([i \in 1..Len(missing) |-> missing[i][1]])>>
                    ELSE << >>)
                   \o AllRowErrors(results.data, 1)
        validData == ValidRows(results.data, 1)
    IN  [valid |-> IsValid(errors, validData), errors |-> errors, data |-> validData]

\* validateCSVData, the error callback: the file could not be read
validateCSVDataFailed == [valid |-> FALSE, errors |-> <<ErrParse>>, data |-> << >>]

\* ------------------------------------------------------------------------
\* Data access layer (lib/database)
\* ------------------------------------------------------------------------

\* 'このメールアドレスは既に登録されています'
MSG_DUP ==
    <<"h_ko", "h_no">> \o H_email
    \o <<"h_ha", "k_sude", "h_ni", "k_tou", "k_roku", "h_sa", "h_re", "h_te", "h_i", "h_ma", "h_su">>

\* A thrown or returned error: isError is `instanceof Error`
NoError == [isError |-> FALSE, code |-> "", message |-> << >>]
NewError(message) == [isError |-> TRUE, code |-> "", message |-> message]

\* The errors the backend client reports besides "no row" and "unique
\* violation": a rejected request (a plain PostgrestError object) and a failed
\* fetch (an Error).  The request had no effect on the table.
BackendErrors ==
    { [isError |-> FALSE, code |-> "PGRST301", message |-> <<"J", "W", "T", " ", "e", "x", "p", "i", "r", "e", "d">>],
      [isError |-> TRUE, code |-> "", message |-> <<"F", "a", "i", "l", "e", "d", " ", "t", "o", " ", "f", "e", "t", "c", "h">>] }

ERR_NO_ROWS   == [isError |-> FALSE, code |-> "PGRST116", message |-> <<"n", "o", " ", "r", "o", "w", "s">>]
ERR_UNIQUE    == [isError |-> FALSE, code |-> "23505",
                  message |-> <<"d", "u", "p", "l", "i", "c", "a", "t", "e", " ", "k", "e", "y", " ", "v", "a", "l", "u", "e">>]

\* A table without the constraint
UniqueViolationNever(table, row) == FALSE

\* The unique constraint on employees.email of the hosted table
UniqueViolation(table, row) == \E i \in 1..Len(table) : table[i].email = row.email

\* .select('id').eq('email', email).single(): the row when exactly one row
\* matches, the error PGRST116 otherwise
SelectSingle(table, email) ==
    LET hits == {i \in 1..Len(table) : table[i].email = email}
    IN  IF Cardinality(hits) = 1
        THEN [data |-> TRUE, error |-> NoError]
        ELSE [data |-> FALSE, error |-> ERR_NO_ROWS]

\* The responses a select may get: the table's answer, or a backend error
SelectResponses(table, email) ==
    {SelectSingle(table, email)} \cup {[data |-> FALSE, error |-> e] : e \in BackendErrors}

\* checkEmailExists on a response: throws every error but PGRST116, else !!data
checkEmailExists(response) ==
    IF response.error # NoError /\ response.error.code # "PGRST116"
    THEN [threw |-> TRUE, error |-> response.error, exists |-> FALSE]
    ELSE [threw |-> FALSE, error |-> NoError, exists |-> response.data]

\* .insert([row]).select().single(): the row is stored unless the unique
\* constraint rejects it
InsertResponse(table, row) ==
    IF UniqueViolation(table, row)
    THEN [data |-> FALSE, error |-> ERR_UNIQUE]
    ELSE [data |-> TRUE, error |-> NoError]

\* The responses an insert may get
InsertResponses(table, row) ==
    {InsertResponse(table, row)} \cup {[data |-> FALSE, error |-> e] : e \in BackendErrors}

\* The table after an insert that got this response
TableAfter(table, row, response) ==
    IF response.error = NoError THEN Append(table, row) ELSE table

\* createEmployee after its existence check: what it throws, if it throws
CreateCheckError(check) ==
    IF check.threw THEN check.error
    ELSE IF check.exists THEN NewError(MSG_DUP)
    ELSE NoError

\* createEmployee rethrowing every insert error as it is
CreateInsertErrorRethrown(response) ==
    IF response.error = NoError THEN NoError ELSE response.error

\* createEmployee after its insert: what it throws, if it throws
CreateInsertError(response) ==
    IF response.error = NoError THEN NoError
    ELSE IF response.error.code = "23505" THEN NewError(MSG_DUP)
    ELSE response.error

\* ------------------------------------------------------------------------
\* CSV import modal (components/CSVImportModal): messages
\* ------------------------------------------------------------------------

Upper == <<"A","B","C","D","E","F","G","H","I","J","K","L","M",
           "N","O","P","Q","R","S","T","U","V","W","X","Y","Z">>
Lower == <<"a","b","c","d","e","f","g","h","i","j","k","l","m",
           "n","o","p","q","r","s","t","u","v","w","x","y","z">>

\* s.toLowerCase()
ToLowerCase(s) ==
    [i \in 1..Len(s) |->
        IF \E k \in 1..26 : Upper[k] = s[i]
        THEN Lower[CHOOSE k \in 1..26 : Upper[k] = s[i]]
        ELSE s[i]]

ImportMessage(type, subject) == [type |-> type, row |-> 0, subject |-> subject]

ErrFileSize   == ImportMessage("fileSize", << >>)
ErrNoFile     == ImportMessage("noFile", << >>)
ErrNotCsv     == ImportMessage("notCsv", << >>)
ErrDupInFile(name) == ImportMessage("duplicatedInFile", name)

\* The field a 'required' or 'too long' message is about
ErrorField(errorMsg, otherwise) ==
    IF Includes(errorMsg, <<"e", "m", "a", "i", "l">>) THEN H_email
    ELSE IF Includes(errorMsg, <<"n", "a", "m", "e">>) THEN H_name
    ELSE IF Includes(errorMsg, <<"c", "o", "m", "p", "a", "n", "y">>) THEN H_company
    ELSE IF Includes(errorMsg, <<"d", "e", "p", "a", "r", "t", "m", "e", "n", "t">>) THEN H_department
    ELSE IF Includes(errorMsg, <<"p", "o", "s", "i", "t", "i", "o", "n">>) THEN H_position
    ELSE otherwise

\* getErrorMessage(error, employeeName)
getErrorMessage(error, employeeName) ==
    LET errorMsg == ToLowerCase(error.message)
    IN  IF error.isError /\ (\/ Includes(errorMsg, <<"d", "u", "p", "l", "i", "c", "a", "t", "e", " ", "k", "e", "y">>)
                             \/ Includes(errorMsg, <<"u", "n", "i", "q", "u", "e", " ", "c", "o", "n", "s", "t", "r", "a", "i", "n", "t">>))
        THEN ImportMessage("alreadyRegistered", employeeName)
        ELSE IF error.isError /\ (\/ Includes(errorMsg, <<"i", "n", "v", "a", "l", "i", "d", " ", "e", "m", "a", "i", "l">>)
                                  \/ Includes(errorMsg, <<"e", "m", "a", "i", "l", " ", "f", "o", "r", "m", "a", "t">>))
        THEN ImportMessage("invalidEmail", employeeName)
        ELSE IF error.isError /\ Includes(errorMsg, <<"r", "e", "q", "u", "i", "r", "e", "d">>)
        THEN ImportMessage("fieldMissing", employeeName \o ErrorField(errorMsg, <<"k_hissu">>))
        ELSE IF error.isError /\ Includes(errorMsg, <<"t", "o", "o", " ", "l", "o", "n", "g">>)
        THEN ImportMessage("fieldTooLong", employeeName \o ErrorField(errorMsg, <<"k_data">>))
        ELSE IF error.isError /\ (\/ Includes(errorMsg, <<"d", "a", "t", "a", "b", "a", "s", "e">>)
                                  \/ Includes(errorMsg, <<"d", "b", " ", "e", "r", "r", "o", "r">>))
        THEN ImportMessage("databaseError", employeeName)
        ELSE ImportMessage("systemError", employeeName)

\* 5 * 1024 * 1024 bytes
MaxFileSize == 5 * 1024 * 1024

\* ------------------------------------------------------------------------
\* Registration form (pages/EmployeeRegistration): messages and rules
\* ------------------------------------------------------------------------

\* 'メールアドレスの検証中にエラーが発生しました'
MSG_VERIFY_FAILED ==
    H_email \o <<"h_no", "k_ken", "k_shou", "k_chuu", "h_ni", "K_e", "K_ra", "K_chouon", "h_ga", "k_hatsu", "k_sei", "h_shi", "h_ma", "h_shi", "h_ta">>

\* '従業員の登録に失敗しました。もう一度お試しください。'
MSG_SUBMIT_FAILED ==
    <<"k_juu", "k_gyou", "k_in", "h_no", "k_tou", "k_roku", "h_ni", "k_shitsu", "k_pai", "h_shi", "h_ma", "h_shi", "h_ta", "maru", "h_mo", "h_u", "k_ichi", "k_do", "h_o", "k_tame", "h_shi", "h_ku", "h_da", "h_sa", "h_i", "maru">>

\* '<column>は必須です'
MSG_REQUIRED(header) == header \o <<"h_ha", "k_hitsu", "k_su", "h_de", "h_su">>

\* '<column>は<n>文字以内で入力してください'
MSG_MAX_LENGTH(header, digits) ==
    header \o <<"h_ha">> \o digits \o <<"k_mo", "k_ji", "k_i", "k_nai", "h_de", "k_nyuu", "k_ryoku", "h_shi", "h_te", "h_ku", "h_da", "h_sa", "h_i">>

\* '有効なメールアドレスを入力してください'
MSG_PATTERN ==
    <<"k_yuu", "k_kou", "h_na">> \o H_email
    \o <<"h_wo", "k_nyuu", "k_ryoku", "h_shi", "h_te", "h_ku", "h_da", "h_sa", "h_i">>

\* The column name of a form field
HeaderOf(field) ==
    CASE field = "company_name" -> H_company
      [] field = "name"         -> H_name
      [] field = "email"        -> H_email
      [] field = "department"   -> H_department
      [] field = "position"     -> H_position

\* The maxLength rule of a form field (0: the field has none)
MaxLengthOf(field) ==
    CASE field = "company_name" -> 100
      [] field = "name"         -> 50
      [] field = "email"        -> 0
      [] field = "department"   -> 50
      [] field = "position"     -> 50

\* The digits of a field's maxLength in its message
MaxLengthText(field) == IF field = "company_name" THEN <<"1", "0", "0">> ELSE <<"5", "0">>

\* The required rule of the form library: only the empty string is empty
IsEmptyValue(value) == value = << >>

\* The first failing synchronous rule of a field (required, maxLength,
\* pattern), << >> when the value passes them
SyncFieldError(field, value) ==
    IF IsEmptyValue(value) THEN MSG_REQUIRED(HeaderOf(field))
    ELSE IF MaxLengthOf(field) > 0 /\ Len(value) > MaxLengthOf(field)
    THEN MSG_MAX_LENGTH(HeaderOf(field), MaxLengthText(field))
    ELSE IF field = "email" /\ ~EmailPattern(value) THEN MSG_PATTERN
    ELSE << >>

\* The form's field errors after the synchronous rules
SyncErrors(data) == [f \in Fields |-> SyncFieldError(f, data[f])]

NoFieldErrors == [f \in Fields |-> << >>]

\* validateEmail on the response of its existence check: true (<< >>) or a message
validateEmail(response) ==
    LET check == checkEmailExists(response)
    IN  IF check.threw THEN MSG_VERIFY_FAILED
        ELSE IF check.exists THEN MSG_DUP
        ELSE << >>

\* onSubmit's catch: the message shown for a thrown error
SubmitErrorMessage(error) == IF error.isError THEN error.message ELSE MSG_SUBMIT_FAILED

\* onSubmit's catch: the message goes to the email field when it names the
\* email column
IsEmailMessage(message) == Includes(message, H_email)

\* ------------------------------------------------------------------------
\* Bounds and inputs
\* ------------------------------------------------------------------------

\* processFile invocations (drops and file selections) of the import modal
MaxRuns == 2
\* submissions of the registration form
MaxSubmits == 1
\* records in an exported list
MaxExport == 2
\* Rows fetched by the list view
MaxList == 2

Runs == 1..MaxRuns
Subs == 1..MaxSubmits
Callers == {<<"run", r>> : r \in Runs} \cup {<<"sub", s>> : s \in Subs}

Employee(company, name, email, department, position) ==
    [company_name |-> company, name |-> name, email |-> email,
     department |-> department, position |-> position]

NoRecord == Employee(<< >>, << >>, << >>, << >>, << >>)

MailA == <<"a", "@", "b", ".", "c", "o">>
MailB == <<"c", "@", "d", ".", "c", "o">>

RowA       == Employee(<<"C">>, <<"A">>, MailA, <<"D">>, <<"P">>)
RowB       == Employee(<<"C">>, <<"B">>, MailB, <<"D">>, <<"P">>)
RowA2      == Employee(<<"C">>, <<"Z">>, MailA, <<"D">>, <<"P">>)
RowBlank   == Employee(<<"C">>, <<SP>>, MailB, <<"D">>, <<"P">>)
RowBadMail == Employee(<<"C">>, <<"B">>, <<"c", "@", "d">>, <<"D">>, <<"P">>)

\* The header row of the import template (downloadTemplate)
ImportHeaders == <<H_company, H_name, H_email, H_department, H_position>>

\* A CSV text: a header row and rows of unquoted cells in the template's order
Cells(rec) == <<rec.company_name, rec.name, rec.email, rec.department, rec.position>>
FileText(headers, recs) ==
    Join(<<Join(headers, <<COMMA>>)>> \o [i \in 1..Len(recs) |-> Join(Cells(recs[i]), <<COMMA>>)],
         <<LF>>)

\* A File: whether its type or name says CSV, its size in bytes and its
\* content.  The size is drawn apart from the modelled content, whose values
\* stand for values of any length.
File(isCsv, size, content) == [isCsv |-> isCsv, size |-> size, content |-> content]
NoFile == File(FALSE, 0, << >>)

SmallSize == 200

CsvFiles ==
    { File(TRUE, SmallSize, FileText(ImportHeaders, <<RowA, RowA2, RowB>>)),
      File(TRUE, SmallSize, FileText(ImportHeaders, <<RowA, RowBlank, RowBadMail>>)),
      File(TRUE, SmallSize, FileText(ImportHeaders, << >>)),
      File(TRUE, SmallSize, FileText(SubSeq(ImportHeaders, 1, 4), <<RowB>>) \o <<LF>>),
      File(TRUE, MaxFileSize, FileText(ImportHeaders, <<RowB>>)),
      File(TRUE, MaxFileSize + 1, FileText(ImportHeaders, <<RowB>>)) }

\* What a drop may carry: a CSV file, a file that is no CSV, or no file
DropInputs == CsvFiles \cup {File(FALSE, SmallSize, FileText(ImportHeaders, <<RowB>>)), NoFile}

\* What the file picker may deliver (accept=".csv" is a hint to the picker)
SelectInputs == CsvFiles

\* What the registration form may be submitted with
FormInputs ==
    { RowA,
      Employee(<<SP>>, <<"B">>, MailB, <<"D">>, <<"P">>),
      Employee(<<"C">>, << >>, MailA, <<"D">>, <<"P">>),
      RowBadMail }

\* Values of an exported record's name: plain, with a comma, with a line
\* break, with quotes inside and at the end
ExportNames ==
    { <<"A">>, <<"A", COMMA, "B">>, <<"A", LF, "B">>, <<"A", DQ, "B">>,
      <<"A", DQ>>, <<"A", DQ, COMMA, "B">> }

ExportRecords == {Employee(<<"C">>, n, MailA, <<"D">>, <<"P">>) : n \in ExportNames}

\* The non-empty lists of at most MaxExport records
ExportLists == UNION {[1..n -> ExportRecords] : n \in 1..MaxExport}

\* Rows the list view fetches: letters of both cases in every field
ListA == Employee(<<"K">>, <<"A", "n">>, MailA, <<"D", "e", "v">>, <<"P", "M">>)
ListB == Employee(<<"Q">>, <<"B", "o">>, MailB, <<"H", "R">>, <<"C", "E", "O">>)
ListC == Employee(<<"K", "q">>, <<"B", "o">>, <<"e", "@", "f", ".", "c", "o">>,
                  <<"D", "e", "v">>, <<"C", "E", "O">>)

\* What getEmployees may return: the lists of at most MaxList rows
FetchedLists == UNION {[1..n -> {ListA, ListB, ListC}] : n \in 0..MaxList}

\* What the user may type into the search box
SearchTerms ==
    { << >>, <<"a">>, <<"N">>, <<"h", "r">>, <<"K">>, <<"e", "o">>, <<"z">>,
      <<"@", "D">>, <<"B", "o">>, <<"q">> }

\* ------------------------------------------------------------------------
\* State
\*
\* The import modal and the registration form are two sessions of the
\* application on the same table.  The list view's isImportModalOpen is not
\* part of the state: the user can open the modal whenever it is closed, so
\* its handlers are taken to be available at any time.
\* ------------------------------------------------------------------------

VARIABLES
    employees,      \* the rows of the employees table, in insertion order
    call,           \* the createEmployee call of each caller (phase "none": no call)
    isProcessing,   \* CSVImportModal: isProcessing
    errors,         \* CSVImportModal: errors
    successCount,   \* CSVImportModal: successCount
    run,            \* the processFile invocations
    location,       \* the route shown by the registration form's session
    isSubmitting,   \* EmployeeRegistration: isSubmitting
    submitError,    \* EmployeeRegistration: submitError (<< >>: null)
    fieldErrors,    \* EmployeeRegistration: the form's errors, by field
    sub,            \* the submissions of the form
    csvPc,          \* export and re-import of a list: "start", "exported", "imported"
    csvData,        \* the list handed to downloadCSV
    csvText,        \* the text downloadCSV produced
    csvResult,      \* what validateCSVData made of that text
    listPc,         \* EmployeeList: "loading", "ready" (the table) or "error"
    fetched,        \* EmployeeList: employees
    searchTerm,     \* EmployeeList: searchTerm
    exported        \* EmployeeList: the last call of downloadCSV

dbVars    == <<employees, call>>
modalVars == <<isProcessing, errors, successCount, run>>
formVars  == <<location, isSubmitting, submitError, fieldErrors, sub>>
csvVars   == <<csvPc, csvData, csvText, csvResult>>
listVars  == <<listPc, fetched, searchTerm, exported>>
vars      == <<dbVars, modalVars, formVars, csvVars, listVars>>

Stored(table, email) == \E i \in 1..Len(table) : table[i].email = email

\* A createEmployee call: its position ("check": the existence check is on
\* its way, "insert": the insert is), its argument, and whether the email was
\* stored when the call was made
IdleCall == [phase |-> "none", data |-> NoRecord, existed |-> FALSE]
NewCall(data, table) ==
    [phase |-> "check", data |-> data, existed |-> Stored(table, data.email)]

\* What is recorded of a completed createEmployee call: its argument, whether
\* its email was stored when it was made, where a duplicate was found
\* ("check", "insert" or "none"), what it threw (NoError: it returned) and how
\* many rows it added to the table
Completed(c, found, error, added) ==
    [data |-> c.data, existed |-> c.existed, found |-> found, error |-> error,
     added |-> added]
NoCall == Completed(IdleCall, "none", NoError, 0)

\* A processFile invocation: its position, its file, whether validateCSVData
\* was reached and what it answered, the loop's locals, and for the record
\* what became of each validated row (outcome, with the row's create call in
\* created) and what the modal displayed when the invocation ended
IdleRun ==
    [pc |-> "idle", file |-> NoFile, parsed |-> FALSE, valid |-> FALSE, data |-> << >>,
     idx |-> 0, imported |-> 0, importErrors |-> << >>, duplicateEmails |-> {},
     outcome |-> << >>, created |-> << >>,
     shown |-> << >>, shownCount |-> 0, endIsProcessing |-> FALSE]

\* A submission of the form: its position, its data, whether its email was
\* stored when it was made, whether onSubmit was entered, and for the record
\* its create call and what it left when it ended
IdleSub ==
    [pc |-> "idle", data |-> NoRecord, existed |-> FALSE, entered |-> FALSE,
     created |-> NoCall, navigated |-> FALSE, endEmailError |-> << >>,
     endIsSubmitting |-> FALSE]

NoResult == [valid |-> FALSE, errors |-> << >>, data |-> << >>]

InitDb ==
    /\ employees = << >>
    /\ call = [c \in Callers |-> IdleCall]

InitModal ==
    /\ isProcessing = FALSE
    /\ errors = << >>
    /\ successCount = 0
    /\ run = [r \in Runs |-> IdleRun]

InitForm ==
    /\ location = "/register-employee"
    /\ isSubmitting = FALSE
    /\ submitError = << >>
    /\ fieldErrors = NoFieldErrors
    /\ sub = [s \in Subs |-> IdleSub]

InitCsv ==
    /\ csvPc = "start"
    /\ csvData = << >>
    /\ csvText = << >>
    /\ csvResult = NoResult

\* No call of downloadCSV yet
NotExported == [done |-> FALSE, data |-> << >>, term |-> << >>, from |-> << >>]

InitList ==
    /\ listPc = "loading"
    /\ fetched = << >>
    /\ searchTerm = << >>
    /\ exported = NotExported

Init == InitDb /\ InitModal /\ InitForm /\ InitCsv /\ InitList

\* ------------------------------------------------------------------------
\* CSV import modal (components/CSVImportModal): processFile
\* ------------------------------------------------------------------------

\* The test with >= for >
TooLargeOrEqual(file) == file.size >= MaxFileSize

\* file.size > 5 * 1024 * 1024
TooLarge(file) == file.size > MaxFileSize

\* handleDrop's test of the dropped file's type and name
IsCsvFile(file) == file.isCsv

RECURSIVE SkipDuplicates(_)
\* The loop from the run's position on, as far as it runs without awaiting:
\* each row whose email the run has seen is reported and skipped; the email
\* of the first other row is noted, and the loop stops at it to create it
SkipDuplicates(rr) ==
    IF rr.idx > Len(rr.data) THEN rr
    ELSE IF rr.data[rr.idx].email \in rr.duplicateEmails
    THEN SkipDuplicates([rr EXCEPT !.importErrors = Append(@, ErrDupInFile(rr.data[rr.idx].name)),
                                   !.outcome = Append(@, "duplicatedInFile"),
                                   !.created = Append(@, NoCall),
                                   !.idx = @ + 1])
    ELSE [rr EXCEPT !.duplicateEmails = @ \cup {rr.data[rr.idx].email}]

\* The loop's position after the create call of row idx of n threw
IndexAfterFailure(idx, n) == idx + 1

\* The catch of a loop that forgets the email of a row whose create call threw
AfterCreateForgetFailed(rr, done) ==
    IF done.error = NoError
    THEN [rr EXCEPT !.imported = @ + 1,
                    !.outcome = Append(@, "imported"),
                    !.created = Append(@, done),
                    !.idx = @ + 1]
    ELSE [rr EXCEPT !.importErrors = Append(@, getErrorMessage(done.error, rr.data[rr.idx].name)),
                    !.outcome = Append(@, "failed"),
                    !.created = Append(@, done),
                    !.duplicateEmails = @ \ {rr.data[rr.idx].email},
                    !.idx = IndexAfterFailure(@, Len(rr.data))]

\* The run after the create call of its current row returned (imported++)
\* or threw (the loop's catch)
AfterCreate(rr, done) ==
    IF done.error = NoError
    THEN [rr EXCEPT !.imported = @ + 1,
                    !.outcome = Append(@, "imported"),
                    !.created = Append(@, done),
                    !.idx = @ + 1]
    ELSE [rr EXCEPT !.importErrors = Append(@, getErrorMessage(done.error, rr.data[rr.idx].name)),
                    !.outcome = Append(@, "failed"),
                    !.created = Append(@, done),
                    !.idx = IndexAfterFailure(@, Len(rr.data))]

\* The errors displayed once the loop is over: setErrors only if there are any
ErrorsAfterLoop(importErrors, current) ==
    IF Len(importErrors) > 0 THEN importErrors ELSE current

\* The errors displayed when validation did not pass
ErrorsAfterValidation(result) == result.errors

\* The run as it ends, with what the modal displays from then on
EndRun(rr, shown, count) ==
    [rr EXCEPT !.pc = "done", !.shown = shown, !.shownCount = count,
               !.endIsProcessing = FALSE]

\* processFile from the row the run stands at: the loop runs on to the next
\* create call, or to its end, where the counts are displayed and the finally
\* block resets isProcessing
RunContinue(r, rr, table) ==
    LET adv == SkipDuplicates(rr)
    IN  IF adv.idx > Len(adv.data)
        THEN /\ run' = [run EXCEPT ![r] =
                           EndRun(adv, ErrorsAfterLoop(adv.importErrors, errors), adv.imported)]
             /\ errors' = ErrorsAfterLoop(adv.importErrors, errors)
             /\ successCount' = adv.imported
             /\ isProcessing' = FALSE
             /\ call' = [call EXCEPT ![<<"run", r>>] = IdleCall]
        ELSE /\ run' = [run EXCEPT ![r] = [adv EXCEPT !.pc = "creating"]]
             /\ call' = [call EXCEPT ![<<"run", r>>] = NewCall(adv.data[adv.idx], table)]
             /\ UNCHANGED <<errors, successCount, isProcessing>>

\* processFile up to its first await: the state is reset, a file over the
\* size limit is refused (and the finally block resets isProcessing), any
\* other file is handed to validateCSVData
StartProcess(r, file) ==
    /\ IF TooLarge(file)
       THEN /\ run' = [run EXCEPT ![r] = EndRun([IdleRun EXCEPT !.file = file], <<ErrFileSize>>, 0)]
            /\ errors' = <<ErrFileSize>>
            /\ isProcessing' = FALSE
       ELSE /\ run' = [run EXCEPT ![r] = [IdleRun EXCEPT !.pc = "validating", !.file = file]]
            /\ errors' = << >>
            /\ isProcessing' = TRUE
    /\ successCount' = 0

\* The processFile invocation a new file starts: the first unused one
FreeRuns == {r \in Runs : run[r].pc = "idle"}
FreeRun == CHOOSE r \in FreeRuns : \A q \in FreeRuns : r <= q

\* handleDrop: something is dropped on the modal's drop zone
HandleDrop ==
    /\ FreeRuns # {}
    /\ \E file \in DropInputs :
         IF file = NoFile
         THEN /\ errors' = <<ErrNoFile>>
              /\ UNCHANGED <<isProcessing, successCount, run>>
         ELSE IF ~IsCsvFile(file)
         THEN /\ errors' = <<ErrNotCsv>>
              /\ UNCHANGED <<isProcessing, successCount, run>>
         ELSE StartProcess(FreeRun, file)
    /\ UNCHANGED <<dbVars, formVars, csvVars, listVars>>

\* handleFileSelect: the file picker, whose button is disabled while
\* isProcessing, delivers a file
HandleFileSelect ==
    /\ ~isProcessing
    /\ FreeRuns # {}
    /\ \E file \in SelectInputs : StartProcess(FreeRun, file)
    /\ UNCHANGED <<dbVars, formVars, csvVars, listVars>>

\* processFile resumes with the result of validateCSVData: the file was
\* parsed, or could not be read
ValidateReturn(r) ==
    /\ run[r].pc = "validating"
    /\ \E result \in {validateCSVData(run[r].file.content), validateCSVDataFailed} :
         IF ~result.valid
         THEN /\ run' = [run EXCEPT ![r] =
                            EndRun([@ EXCEPT !.parsed = TRUE], ErrorsAfterValidation(result),
                                   successCount)]
              /\ errors' = ErrorsAfterValidation(result)
              /\ isProcessing' = FALSE
              /\ UNCHANGED <<successCount, call>>
         ELSE RunContinue(r, [run[r] EXCEPT !.parsed = TRUE, !.valid = TRUE,
                                            !.data = result.data, !.idx = 1],
                          employees)
    /\ UNCHANGED <<employees, formVars, csvVars, listVars>>

\* ------------------------------------------------------------------------
\* Registration form (pages/EmployeeRegistration): handleSubmit and onSubmit
\* ------------------------------------------------------------------------

FreeSubs == {s \in Subs : sub[s].pc = "idle"}
FreeSub == CHOOSE s \in FreeSubs : \A q \in FreeSubs : s <= q

\* A submission ends: what it leaves is recorded with it
EndSub(ss, created, navigated, emailError, submitting) ==
    [ss EXCEPT !.pc = "done", !.created = created, !.navigated = navigated,
               !.endEmailError = emailError, !.endIsSubmitting = submitting]

\* onSubmit without its finally block
SubmittingLeft(before) == before

\* isSubmitting once onSubmit's finally block has run
SubmittingAfterSubmit(before) == FALSE

\* onSubmit after createEmployee returned (navigate) or threw (the catch);
\* the finally block resets isSubmitting
SubResume(s, done) ==
    LET message == SubmitErrorMessage(done.error)
        toEmail == done.error # NoError /\ IsEmailMessage(message)
        shown   == IF toEmail THEN [fieldErrors EXCEPT !.email = message] ELSE fieldErrors
    IN  /\ location' = IF done.error = NoError THEN "/employees" ELSE location
        /\ fieldErrors' = shown
        /\ submitError' = IF done.error # NoError /\ ~toEmail THEN message ELSE submitError
        /\ isSubmitting' = SubmittingAfterSubmit(isSubmitting)
        /\ sub' = [sub EXCEPT ![s] = EndSub(@, done, done.error = NoError, shown.email,
                                            SubmittingAfterSubmit(isSubmitting))]
        /\ call' = [call EXCEPT ![<<"sub", s>>] = IdleCall]

\* The form is submitted: the form library checks the synchronous rules of
\* every field and, if the email passes its own, asks validateEmail
HandleSubmit ==
    /\ location = "/register-employee"
    /\ ~isSubmitting
    /\ FreeSubs # {}
    /\ \E data \in FormInputs :
         LET s == FreeSub
             started == [IdleSub EXCEPT !.data = data,
                                        !.existed = Stored(employees, data.email)]
         IN  IF SyncErrors(data).email = << >>
             THEN /\ sub' = [sub EXCEPT ![s] = [started EXCEPT !.pc = "validating"]]
                  /\ UNCHANGED fieldErrors
             ELSE /\ sub' = [sub EXCEPT ![s] =
                                EndSub(started, NoCall, FALSE, SyncErrors(data).email,
                                       isSubmitting)]
                  /\ fieldErrors' = SyncErrors(data)
    /\ UNCHANGED <<location, isSubmitting, submitError, dbVars, modalVars, csvVars, listVars>>

\* The form library's validation ends with validateEmail's answer: with an
\* error in any field onSubmit is not called; otherwise onSubmit starts and
\* awaits its own validateEmail
SubValidateReturn(s) ==
    /\ sub[s].pc = "validating"
    /\ \E response \in SelectResponses(employees, sub[s].data.email) :
         LET found == [SyncErrors(sub[s].data) EXCEPT !.email = validateEmail(response)]
         IN  IF found # NoFieldErrors
             THEN /\ fieldErrors' = found
                  /\ sub' = [sub EXCEPT ![s] = EndSub(@, NoCall, FALSE, found.email, isSubmitting)]
                  /\ UNCHANGED <<isSubmitting, submitError>>
             ELSE /\ isSubmitting' = TRUE
                  /\ submitError' = << >>
                  /\ fieldErrors' = NoFieldErrors
                  /\ sub' = [sub EXCEPT ![s].pc = "finalCheck", ![s].entered = TRUE]
    /\ UNCHANGED <<location, dbVars, modalVars, csvVars, listVars>>

\* onSubmit resumes with the answer of its final email check: a message goes
\* to the email field and onSubmit returns; otherwise createEmployee is called
SubFinalCheckReturn(s) ==
    /\ sub[s].pc = "finalCheck"
    /\ \E response \in SelectResponses(employees, sub[s].data.email) :
         LET emailValidation == validateEmail(response)
         IN  IF emailValidation # << >>
             THEN /\ fieldErrors' = [fieldErrors EXCEPT !.email = emailValidation]
                  /\ isSubmitting' = SubmittingAfterSubmit(isSubmitting)
                  /\ sub' = [sub EXCEPT ![s] = EndSub(@, NoCall, FALSE, emailValidation,
                                                      SubmittingAfterSubmit(isSubmitting))]
                  /\ UNCHANGED call
             ELSE /\ sub' = [sub EXCEPT ![s].pc = "creating"]
                  /\ call' = [call EXCEPT ![<<"sub", s>>] = NewCall(sub[s].data, employees)]
                  /\ UNCHANGED <<fieldErrors, isSubmitting>>
    /\ UNCHANGED <<location, submitError, employees, modalVars, csvVars, listVars>>

\* ------------------------------------------------------------------------
\* createEmployee (lib/database), for both callers
\* ------------------------------------------------------------------------

\* The caller resumes with the completed call
Resume(c, done, after) ==
    IF c[1] = "run"
    THEN RunContinue(c[2], AfterCreate(run[c[2]], done), after) /\ UNCHANGED formVars
    ELSE SubResume(c[2], done) /\ UNCHANGED modalVars

\* createEmployee resumes with the answer of checkEmailExists: it throws, or
\* sends the insert
CreateCheckReturn(c) ==
    /\ call[c].phase = "check"
    /\ \E response \in SelectResponses(employees, call[c].data.email) :
         LET check == checkEmailExists(response)
             error == CreateCheckError(check)
         IN  IF error = NoError
             THEN /\ call' = [call EXCEPT ![c].phase = "insert"]
                  /\ UNCHANGED <<modalVars, formVars>>
             ELSE Resume(c, Completed(call[c], IF check.exists THEN "check" ELSE "none",
                                      error, 0),
                         employees)
    /\ UNCHANGED <<employees, csvVars, listVars>>

\* createEmployee resumes with the answer of the insert: it throws, or
\* returns the stored employee
CreateInsertReturn(c) ==
    /\ call[c].phase = "insert"
    /\ \E response \in InsertResponses(employees, call[c].data) :
         LET error == CreateInsertError(response)
             after == TableAfter(employees, call[c].data, response)
         IN  /\ employees' = after
             /\ Resume(c, Completed(call[c],
                                    IF response.error.code = "23505" THEN "insert" ELSE "none",
                                    error, Len(after) - Len(employees)),
                       after)
    /\ UNCHANGED <<csvVars, listVars>>

\* ------------------------------------------------------------------------
\* The application
\* ------------------------------------------------------------------------

Next ==
    \/ HandleDrop
    \/ HandleFileSelect
    \/ \E r \in Runs : ValidateReturn(r)
    \/ HandleSubmit
    \/ \E s \in Subs : SubValidateReturn(s)
    \/ \E s \in Subs : SubFinalCheckReturn(s)
    \/ \E c \in Callers : CreateCheckReturn(c)
    \/ \E c \in Callers : CreateInsertReturn(c)

Spec == Init /\ [][Next]_vars

\* ------------------------------------------------------------------------
\* Export of a list and import of the exported text
\* ------------------------------------------------------------------------

InitExport ==
    /\ InitDb /\ InitModal /\ InitForm /\ InitList
    /\ csvPc = "start"
    /\ csvData \in ExportLists
    /\ csvText = << >>
    /\ csvResult = NoResult

\* handleExportCSV: downloadCSV writes the list
Export ==
    /\ csvPc = "start"
    /\ csvText' = downloadCSV(csvData)
    /\ csvPc' = "exported"
    /\ UNCHANGED <<csvData, csvResult, dbVars, modalVars, formVars, listVars>>

\* The exported file is given to the import: validateCSVData reads it
Reimport ==
    /\ csvPc = "exported"
    /\ csvResult' = validateCSVData(csvText)
    /\ csvPc' = "imported"
    /\ UNCHANGED <<csvData, csvText, dbVars, modalVars, formVars, listVars>>

NextExport == Export \/ Reimport

SpecExport == InitExport /\ [][NextExport]_vars

\* ------------------------------------------------------------------------
\* Employee list (EmployeeList): fetch, search, export
\* ------------------------------------------------------------------------

\* The filter's test with the fields compared as they are
MatchesAsTyped(employee, term) ==
    IF term = << >> THEN TRUE
    ELSE LET searchTermLower == ToLowerCase(term)
         IN  \/ Includes(employee.name, searchTermLower)
             \/ Includes(employee.email, searchTermLower)
             \/ Includes(employee.department, searchTermLower)
             \/ Includes(employee.company_name, searchTermLower)
             \/ Includes(employee.position, searchTermLower)

\* The callback of employees.filter
Matches(employee, term) ==
    IF term = << >> THEN TRUE
    ELSE LET searchTermLower == ToLowerCase(term)
         IN  \/ Includes(ToLowerCase(employee.name), searchTermLower)
             \/ Includes(ToLowerCase(employee.email), searchTermLower)
             \/ Includes(ToLowerCase(employee.department), searchTermLower)
             \/ Includes(ToLowerCase(employee.company_name), searchTermLower)
             \/ Includes(ToLowerCase(employee.position), searchTermLower)

filteredEmployees(list, term) ==
    LET Keep(employee) == Matches(employee, term)
    IN  SelectSeq(list, Keep)

\* fetchEmployees, on mount and from the import modal's onSuccess: getEmployees
\* returns rows, or fails and the view shows the error
FetchEmployees ==
    /\ listPc # "error"
    /\ \/ \E data \in FetchedLists :
              /\ fetched' = data
              /\ listPc' = "ready"
       \/ /\ listPc' = "error"
          /\ UNCHANGED fetched
    /\ UNCHANGED <<searchTerm, exported, dbVars, modalVars, formVars, csvVars>>

\* onChange of the search box
SetSearchTerm ==
    /\ listPc = "ready"
    /\ \E term \in SearchTerms : searchTerm' = term
    /\ UNCHANGED <<listPc, fetched, exported, dbVars, modalVars, formVars, csvVars>>

\* handleExportCSV; its button is disabled while the filtered list is empty
HandleExportCSV ==
    /\ listPc = "ready"
    /\ filteredEmployees(fetched, searchTerm) # << >>
    /\ exported' = [done |-> TRUE, data |-> filteredEmployees(fetched, searchTerm),
                    term |-> searchTerm, from |-> fetched]
    /\ UNCHANGED <<listPc, fetched, searchTerm, dbVars, modalVars, formVars, csvVars>>

NextList == FetchEmployees \/ SetSearchTerm \/ HandleExportCSV

SpecList == Init /\ [][NextList]_vars

\* ------------------------------------------------------------------------
\* Properties
\* ------------------------------------------------------------------------

\* The createEmployee calls that have completed
CompletedCalls ==
    (UNION {{run[r].created[i] : i \in 1..Len(run[r].created)} : r \in Runs}
     \cup {sub[s].created : s \in Subs})
    \ {NoCall}

\* C1: no two rows of the employees table have the same email, whatever
\* createEmployee calls of the form and of imports have run, raced or failed.
C1_EmailUnique ==
    \A i, j \in 1..Len(employees) :
        i # j => employees[i].email # employees[j].email

\* Two calls raced on one email: the loser passed its existence check, was
\* refused by the insert, and the email is stored once
C1_Witness ==
    \E k \in CompletedCalls :
        /\ ~k.existed /\ k.found = "insert"
        /\ Cardinality({i \in 1..Len(employees) : employees[i].email = k.data.email}) = 1

\* C2: a createEmployee call whose email is stored when it is made returns
\* no record and adds no row; and a call in which the duplicate is found, by
\* the existence check or by the insert's error 23505, throws the Error with
\* the already-registered message and adds no row.
C2_DuplicateRejected ==
    \A k \in CompletedCalls :
        /\ k.existed => k.error # NoError /\ k.added = 0
        /\ k.found # "none" => k.error = NewError(MSG_DUP) /\ k.added = 0

\* Both ways of finding the duplicate have happened
C2_Witness ==
    /\ \E k \in CompletedCalls : k.existed /\ k.found = "check" /\ k.error = NewError(MSG_DUP)
    /\ \E k \in CompletedCalls : ~k.existed /\ k.found = "insert" /\ k.error = NewError(MSG_DUP)

Range(seq) == {seq[i] : i \in 1..Len(seq)}

\* The run read its file: it is over, its file was within the size limit and
\* could be read
ReadFile(r) ==
    /\ run[r].pc = "done"
    /\ run[r].file.size <= 5 * 1024 * 1024
    /\ run[r].parsed
    /\ run[r].shown # <<ErrParse>>

\* C3: once an import of a file within the size limit is over, every row of
\* the file that passes the per-row validation has been taken up by the
\* import loop (submitted with its own create call, or reported), whatever
\* the other rows of the file are.
C3_ValidRowsImported ==
    \A r \in Runs :
        ReadFile(r) =>
            LET rows == ValidRows(PapaParse(run[r].file.content).data, 1)
            IN  \A i \in 1..Len(rows) : i <= Len(run[r].outcome)

\* C4: the text downloadCSV writes for a list is accepted by validateCSVData
\* and yields the list's records, in order, with the same five values.
C4_RoundTrip ==
    csvPc = "imported" => csvResult.valid /\ csvResult.data = csvData

\* The header row of an exported text: what stands between the byte-order
\* mark and the first line feed
HeaderLine(text) == Sub(text, 2, IndexOf(text, LF, 1) - 1)

\* No value of the list holds a quote character
QuoteFree(list) ==
    \A i \in 1..Len(list) : \A f \in Fields : DQ \notin Range(list[i][f])

\* C5 as stated: the exported text starts with the byte-order mark and its
\* header row is that of the import format, company name first.
C5_ImportHeaderOrder ==
    csvPc # "start" =>
        /\ csvText[1] = BOM
        /\ HeaderLine(csvText) = Join(ImportHeaders, <<COMMA>>)

\* C5, amended: the exported text starts with the byte-order mark, its header
\* row names name, email, company name, department and position in this
\* order, and every data row holds the record's values in this order (read
\* back by the CSV parser, for lists whose values hold no quote character).
C5_ExportColumns ==
    csvPc # "start" =>
        /\ csvText[1] = BOM
        /\ HeaderLine(csvText) = Join(<<H_name, H_email, H_company, H_department, H_position>>,
                                      <<COMMA>>)
        /\ QuoteFree(csvData) =>
             LET rows == PapaRows(Tail(csvText))
             IN  /\ Len(rows) = Len(csvData) + 1
                 /\ \A i \in 1..Len(csvData) :
                        rows[i + 1] = <<csvData[i].name, csvData[i].email,
                                        csvData[i].company_name, csvData[i].department,
                                        csvData[i].position>>

\* A list of two records, one with a comma in its name, has been exported
C5_Witness ==
    /\ csvPc = "exported"
    /\ Len(csvData) = 2
    /\ QuoteFree(csvData)
    /\ \E i \in 1..2 : COMMA \in Range(csvData[i].name)

\* C6: at most one create call of the import is in flight.
C6_OneCreateInFlight ==
    Cardinality({r \in Runs : call[<<"run", r>>].phase # "none"}) <= 1

\* C7: no create call is in flight for a record with a missing, empty or
\* white-space-only field; and an import that read its file displays, for
\* every such field of every data row, the message naming the row's number
\* (its index + 2) and the column.
C7_RequiredFields ==
    /\ \A c \in Callers :
           call[c].phase # "none" => \A f \in Fields : Trim(call[c].data[f]) # << >>
    /\ \A r \in Runs :
           ReadFile(r) =>
               LET data == PapaParse(run[r].file.content).data
               IN  \A i \in 1..Len(data) : \A k \in 1..Len(REQUIRED_HEADERS) :
                       IsBlank(data[i], REQUIRED_HEADERS[k][1])
                           => ErrRequired(i + 1, REQUIRED_HEADERS[k][1]) \in Range(run[r].shown)

\* C8: a file of more than 5 * 1024 * 1024 bytes is refused before it is
\* read: validateCSVData is not reached, no row is validated, no create call
\* is made, nothing is counted, and the file-size message alone is displayed;
\* a file of exactly that size reaches validateCSVData.
C8_SizeLimit ==
    \A r \in Runs :
        /\ run[r].pc # "idle" /\ run[r].file.size > 5 * 1024 * 1024 =>
               /\ run[r].pc = "done"
               /\ ~run[r].parsed /\ run[r].data = << >>
               /\ run[r].outcome = << >> /\ call[<<"run", r>>].phase = "none"
               /\ run[r].imported = 0 /\ run[r].shownCount = 0
               /\ run[r].shown = <<ErrFileSize>>
        /\ run[r].pc = "done" /\ run[r].file.size = 5 * 1024 * 1024 => run[r].parsed

\* One file over the limit was refused and one of exactly the limit imported
C8_Witness ==
    \E r, q \in Runs :
        /\ run[r].pc = "done" /\ run[r].file.size = 5 * 1024 * 1024 + 1
        /\ run[r].shown = <<ErrFileSize>>
        /\ run[q].pc = "done" /\ run[q].file.size = 5 * 1024 * 1024
        /\ run[q].imported = 1

\* C9: an import that ended without importing every data row of its file
\* (the file was refused, could not be read, did not pass validation, had no
\* data row, or a create call failed) displayed at least one error, and every
\* import that ended left isProcessing false.
C9_FailuresReported ==
    \A r \in Runs :
        run[r].pc = "done" =>
            /\ ~run[r].endIsProcessing
            /\ (\/ run[r].file.size > 5 * 1024 * 1024
                \/ ~run[r].valid
                \/ Len(PapaParse(run[r].file.content).data) = 0
                \/ run[r].imported < Len(PapaParse(run[r].file.content).data))
               => run[r].shown # << >>

\* C10: a submission makes its create call only inside onSubmit, after the
\* remote checks; one whose email was stored when it was made adds no row,
\* does not navigate and leaves a message on the email field; one that
\* navigates to /employees has added exactly one row, and no other adds any;
\* and when a submission that entered onSubmit ends, isSubmitting is false.
C10_Submission ==
    \A s \in Subs :
        /\ call[<<"sub", s>>].phase # "none" => sub[s].pc = "creating" /\ sub[s].entered
        /\ sub[s].pc = "done" =>
               /\ sub[s].existed =>
                      /\ sub[s].created.added = 0
                      /\ ~sub[s].navigated
                      /\ sub[s].endEmailError # << >>
               /\ sub[s].navigated <=> sub[s].created.added = 1
               /\ sub[s].navigated =>
                      /\ sub[s].created.error = NoError
                      /\ Stored(employees, sub[s].data.email)
               /\ sub[s].created.added \in {0, 1}
               /\ sub[s].entered => ~sub[s].endIsSubmitting

\* A submission with an email an import had stored was turned down
C10_Witness ==
    \E s \in Subs :
        /\ sub[s].pc = "done" /\ sub[s].existed
        /\ sub[s].endEmailError = MSG_DUP
        /\ ~sub[s].navigated

\* Two characters are the same up to the case of a letter
SameLetter(a, b) ==
    a = b \/ \E k \in 1..26 : {a, b} = {Upper[k], Lower[k]}

\* The term occurs in the text, the case of letters set aside
OccursIn(term, text) ==
    \E i \in 0..(Len(text) - Len(term)) :
        \A j \in 1..Len(term) : SameLetter(text[i + j], term[j])

\* The positions of the rows of a list that the term selects
Selected(list, term) ==
    {i \in 1..Len(list) : \E f \in Fields : OccursIn(term, list[i][f])}

\* The k-th smallest element of a set of positions
Nth(K, k) == CHOOSE i \in K : Cardinality({j \in K : j <= i}) = k

\* The list holds the rows of `list` at the positions K, in the order of `list`
IsSelection(result, list, K) ==
    /\ Len(result) = Cardinality(K)
    /\ \A k \in 1..Len(result) : result[k] = list[Nth(K, k)]

\* C11: the filtered list holds exactly the fetched rows in which the search
\* term occurs, the case of letters set aside, in one of name, email,
\* department, company name or position, in the fetched order; with the
\* empty term it is the fetched list; and the list handed to downloadCSV by
\* the export is this filtered list.
C11_Filter ==
    /\ listPc = "ready" =>
           /\ IsSelection(filteredEmployees(fetched, searchTerm), fetched,
                          Selected(fetched, searchTerm))
           /\ searchTerm = << >> => filteredEmployees(fetched, searchTerm) = fetched
    /\ exported.done =>
           IsSelection(exported.data, exported.from, Selected(exported.from, exported.term))

\* A term with a capital letter selected the second of two rows through a
\* field written in small letters, and that row alone was exported
C11_Witness ==
    /\ listPc = "ready"
    /\ searchTerm = <<"@", "D">>
    /\ fetched = <<ListA, ListB>>
    /\ exported.done /\ exported.term = searchTerm /\ exported.from = fetched
    /\ exported.data = <<ListB>>

\* The message the run collected for its row i, a row that was not imported:
\* the messages are collected in the order of the rows
ErrorOfRow(rr, i) ==
    rr.importErrors[Cardinality({j \in 1..i : rr.outcome[j] # "imported"})]

\* C12: a row of an import whose create call was turned down because its
\* email is registered (by the existence check or by the unique constraint)
\* is reported with the message '<name>: email already registered', not with
\* the system-error message.
C12_DuplicateMessage ==
    \A r \in Runs : \A i \in 1..Len(run[r].outcome) :
        run[r].created[i] # NoCall /\ run[r].created[i].found # "none" =>
            ErrorOfRow(run[r], i) = ImportMessage("alreadyRegistered", run[r].data[i].name)

\* Row i is the first row of the run's validated rows with its email
FirstWithEmail(rr, i) ==
    \A j \in 1..(i - 1) : rr.data[j].email # rr.data[i].email

\* C13: in one import run the first validated row with a given email, and
\* no other, is submitted with a create call; every later row with the same
\* email is reported as duplicated inside the file, without a create call,
\* whether the first row's create call succeeded or failed; a call in flight
\* is that of a first row.
C13_OneCallPerEmail ==
    \A r \in Runs :
        /\ \A i \in 1..Len(run[r].outcome) :
               IF FirstWithEmail(run[r], i)
               THEN /\ run[r].created[i] # NoCall
                    /\ run[r].created[i].data = run[r].data[i]
               ELSE /\ run[r].created[i] = NoCall
                    /\ run[r].outcome[i] = "duplicatedInFile"
                    /\ ErrorOfRow(run[r], i) = ErrDupInFile(run[r].data[i].name)
        /\ call[<<"run", r>>].phase # "none" =>
               /\ run[r].idx \in 1..Len(run[r].data)
               /\ call[<<"run", r>>].data = run[r].data[run[r].idx]
               /\ FirstWithEmail(run[r], run[r].idx)

\* A run whose first row's create call failed reported its second row, of
\* the same email, as duplicated inside the file and went on to the third
C13_Witness ==
    \E r \in Runs :
        /\ run[r].pc = "done"
        /\ run[r].data = <<RowA, RowA2, RowB>>
        /\ run[r].outcome = <<"failed", "duplicatedInFile", "imported">>

\* The rows of the table that a run's create calls added
AddedBy(rr) ==
    Cardinality({i \in 1..Len(rr.created) : rr.created[i] # NoCall /\ rr.created[i].added = 1})

\* C14: when an import of a file that passed validation is over, every
\* validated row has one outcome, the success count displayed plus the number
\* of error messages displayed is the number of validated rows, and the
\* success count displayed is the number of rows the run added to the table.
C14_Accounting ==
    \A r \in Runs :
        run[r].pc = "done" /\ run[r].valid =>
            /\ Len(run[r].outcome) = Len(run[r].data)
            /\ run[r].shownCount + Len(run[r].shown) = Len(run[r].data)
            /\ run[r].shownCount = AddedBy(run[r])

=============================================================================
